---- MODULE Spec2Model ----
(***************************************************************************)
(* NetworkScanService (src/server/network_scan_service.py): a single-      *)
(* flight coordinator for one external scan process.                       *)
(*                                                                         *)
(* Callers invoke start_scan / cancel_scan / get_progress / get_params;    *)
(* each successful start_scan creates an asyncio task running _run_scan,   *)
(* the supervisor.  The supervisor is modelled one lock-protected          *)
(* operation or one await per step, so that calls made from other threads  *)
(* interleave with it exactly where the code allows.  The external process *)
(* is the environment: it emits lines, closes or breaks its stdout, and    *)
(* exits, or does none of these.                                           *)
(*                                                                         *)
(* Text is modelled as a sequence of tokens (characters or whole fixed     *)
(* phrases), so that join, decode and rstrip are computed, not assumed.    *)
(***************************************************************************)
EXTENDS Naturals, Sequences, FiniteSets, TLC

\* ------------------------------------------------------------------ bounds
\* Number of ScanTasks ever created in one behaviour.
MaxStarts == 2
\* Number of lines one external process emits.
MaxLines == 2

\* Number of lines all processes together emit while starts run in threads.
MaxConcLines == 1

\* ------------------------------------------------------------ environment
\* Caller-supplied parameter mappings, as sets of <<key, value>> pairs.
ParamChoices ==
    { {<<"range", "10.0.0.0/24">>}, {<<"range", "10.0.1.0/24">>} }

\* Raw lines as readline() returns them: text with trailing blanks and a
\* newline, an empty line, and a line holding a byte that is not UTF-8.
RawLines == { <<"a", " ", "\n">>, <<"\n">>, <<"xFF", "\n">> }

\* The line the processes write while starts run in threads.
ConcLines == { <<"a", " ", "\n">> }

\* str(e) of the exception create_subprocess_exec raises.
LaunchErrors == { <<"[Errno 2] No such file or directory: 'nmap'">> }

\* str(e) of a failed readline(), a failed decode() and a failed wait().
ReadErrorText == <<"Connection lost">>
DecodeErrorText == <<"'utf-8' codec can't decode byte 0xff">>
WaitErrorText == <<"wait failed">>

\* Exit codes of the process: success and failure.
ExitCodes == {0, 1}

\* Caller threads that may be inside start_scan at the same time, and the
\* params each of them passes.
Threads == {1, 2}
ThreadArg(th) == {<<"range", IF th = 1 THEN "10.0.0.0/24" ELSE "10.0.1.0/24">>}

\* ------------------------------------------------------------------- text
Whitespace == {" ", "\n", "\t", "\r"}

\* sep.join(parts)
RECURSIVE Join(_, _)
Join(parts, sep) ==
    IF Len(parts) = 0 THEN <<>>
    ELSE IF Len(parts) = 1 THEN <<parts[1]>>
    ELSE <<parts[1], sep>> \o Join(Tail(parts), sep)

\* bytes.decode(): defined when every byte is valid UTF-8.
Decodable(raw) == \A i \in 1..Len(raw) : raw[i] # "xFF"

\* str.rstrip(): drops every trailing whitespace character.
RECURSIVE Rstrip(_)
Rstrip(s) ==
    IF Len(s) > 0 /\ s[Len(s)] \in Whitespace
    THEN Rstrip(SubSeq(s, 1, Len(s) - 1))
    ELSE s

\* line.decode().rstrip()
Decoded(raw) == Rstrip(raw)

cmd == <<"nmap", "-sn", "-T4", "10.20.148.0/16">>
CmdText == Join(cmd, " ")
startup_msg == <<"Starting network scan: ">> \o CmdText
cancel_msg == <<"Scan cancelled.">>
success_msg == <<"Scan completed.">>
LaunchErrorMsg(e) == <<"Failed to start nmap: ">> \o e
ScanErrorMsg(e) == <<"Scan error: ">> \o e

\* ------------------------------------------------------------------ state
VARIABLES
    tasks,          \* every ScanTask ever created, in creation order
    task,           \* self._task: index into tasks, 0 for None
    cancel_event,   \* self._cancel_event
    progress,       \* self._progress (its 'logs' entry is a list reference)
    params,         \* self._params
    logs,           \* self._logs: reference into lists
    lists,          \* the list objects ever bound to self._logs
    ret,            \* the last caller operation, its outcome and its result
    starters,       \* position of each thread inside start_scan
    cancelledSince, \* history: cancel_scan was called since the last start
    accesses        \* history: how self._logs and self._progress were used

vars == <<tasks, task, cancel_event, progress, params, logs, lists, ret,
          starters, cancelledSince, accesses>>

\* One use of a field of the service: by the "caller" of an operation or by
\* the "supervisor" coroutine, of field "logs" or "progress", to "read" or
\* "write" it, inside a 'with self._lock' block or not.
Access(by, field, mode, locked) ==
    [by |-> by, field |-> field, mode |-> mode, locked |-> locked]

\* Line 23: start_scan rebinds self._logs, outside any lock block.
RebindLogsAccesses == {Access("caller", "logs", "write", FALSE)}

\* Lines 82-84: get_progress reads both fields inside the lock block.
GetProgressAccesses ==
    {Access("caller", "progress", "read", TRUE),
     Access("caller", "logs", "read", TRUE)}

\* Lines 87-88: _append_log reads self._logs and appends to the list inside
\* the lock block.
AppendLogAccesses ==
    {Access("supervisor", "logs", "read", TRUE),
     Access("supervisor", "logs", "write", TRUE)}

\* Lines 97-98: _set_progress rebinds self._progress inside the lock block.
SetProgressAccesses == {Access("supervisor", "progress", "write", TRUE)}

\* Lines 32, 42, 51, 60, 64, 69: the dict passed to _set_progress is built
\* by the caller of _set_progress, which reads self._logs before the lock
\* is taken.
BuildDictAccesses == {Access("supervisor", "logs", "read", FALSE)}

\* The step makes the accesses in S.
Record(S) == accesses' = accesses \cup S

\* A dict with the keys the service uses; keys says which are present.
NoList == 0
EmptyDict ==
    [keys |-> {}, status |-> "", cmd |-> <<>>, output |-> <<>>,
     error |-> <<>>, logs |-> NoList]

\* The record of a call that returns no dict: no keys, no logs.
NoResult == [EmptyDict EXCEPT !.logs = <<>>]

\* Which objects of the service a returned dict is made of: dict says that
\* it is the object self._progress, list the list object its 'logs' is
\* (NoList for a list no field of the service refers to).
NoAlias == [dict |-> FALSE, list |-> NoList]

\* What the last call did: op is the operation, result is "ok" or the error
\* raised, value the dict get_progress returned, mapping the dict get_params
\* returned, alias the identity of value.
Outcome(op, result, value, mapping) ==
    [op |-> op, result |-> result, value |-> value, mapping |-> mapping,
     alias |-> NoAlias]

\* A ScanTask with its coroutine's position and locals, the external
\* process it launched, and the history of what it wrote.
NewTask(p) ==
    [pc |-> "created",
     arg |-> p,            \* history: the params of the start that made it
     line |-> <<>>,        \* decoded
     e |-> <<>>,           \* str(e) of the caught exception
     pipe |-> <<>>,        \* lines written by the process, not yet read
     nEmit |-> 0,          \* lines the process has written
     stdout |-> "none",    \* none | open | closed | broken
     exit |-> "none",      \* none | running | exited | lost
     termReq |-> FALSE,    \* process.terminate() was called
     returncode |-> <<>>,  \* <<>> for None, <<rc>> once wait() returned rc
     rawRead |-> <<>>,     \* history: raw lines readline() returned
     appended |-> <<>>,    \* history: entries the task appended
     pubs |-> <<>>]        \* history: statuses the task published

TaskIds == 1..Len(tasks)
Active(t) == tasks[t].pc # "done"
ActiveTasks == {t \in TaskIds : Active(t)}
IdleStarters == [th \in Threads |-> [pc |-> "idle", p |-> {}]]

Init ==
    /\ tasks = <<>>
    /\ task = 0
    /\ cancel_event = FALSE
    /\ progress = EmptyDict
    /\ params = {}
    /\ lists = << <<>> >>
    /\ logs = 1
    /\ ret = Outcome("none", "ok", NoResult, {})
    /\ starters = IdleStarters
    /\ cancelledSince = FALSE
    /\ accesses = {}

\* ------------------------------------------------------- caller operations
\* Running with the test of done() inverted.
Running_DoneInverted == task # 0 /\ tasks[task].pc = "done"

\* Line 19: self._task and not self._task.done()
Running == task # 0 /\ tasks[task].pc # "done"

\* StartRejected with the event cleared before the check.
StartRejected_ClearsEvent ==
    /\ ret' = Outcome("start", "AlreadyRunning", NoResult, {})
    /\ cancel_event' = FALSE
    /\ UNCHANGED <<tasks, task, progress, params, logs, lists, starters,
                   cancelledSince>>
    /\ UNCHANGED accesses

\* Lines 19-20: raise RuntimeError("Scan already running")
StartRejected ==
    /\ ret' = Outcome("start", "AlreadyRunning", NoResult, {})
    /\ UNCHANGED <<tasks, task, cancel_event, progress, params, logs, lists,
                   starters, cancelledSince>>
    /\ UNCHANGED accesses

\* Rebinding self._task drops the reference to the task it held; a task
\* that is done is then freed with everything it held.
Retired == [NewTask({}) EXCEPT !.pc = "done"]
Release(ts) ==
    [i \in DOMAIN ts |-> IF ts[i].pc = "done" THEN Retired ELSE ts[i]]

\* StartAccepted without line 21: the event is left as it was.
StartAccepted_NoClear(p) ==
    /\ Len(tasks) < MaxStarts
    /\ params' = p
    /\ lists' = Append(lists, <<>>)
    /\ logs' = Len(lists) + 1
    /\ tasks' = Append(Release(tasks), NewTask(p))
    /\ task' = Len(tasks) + 1
    /\ ret' = Outcome("start", "ok", NoResult, {})
    /\ cancelledSince' = FALSE
    /\ UNCHANGED <<cancel_event, progress, starters>>
    /\ Record(RebindLogsAccesses)

\* StartAccepted without line 23: self._logs keeps the list it had.
StartAccepted_KeepsLogs(p) ==
    /\ Len(tasks) < MaxStarts
    /\ cancel_event' = FALSE
    /\ params' = p
    /\ tasks' = Append(Release(tasks), NewTask(p))
    /\ task' = Len(tasks) + 1
    /\ ret' = Outcome("start", "ok", NoResult, {})
    /\ cancelledSince' = FALSE
    /\ UNCHANGED <<lists, logs, progress, starters>>
    /\ UNCHANGED accesses

\* StartAccepted without line 22: self._params keeps the mapping it had.
StartAccepted_KeepsParams(p) ==
    /\ Len(tasks) < MaxStarts
    /\ cancel_event' = FALSE
    /\ lists' = Append(lists, <<>>)
    /\ logs' = Len(lists) + 1
    /\ tasks' = Append(Release(tasks), NewTask(p))
    /\ task' = Len(tasks) + 1
    /\ ret' = Outcome("start", "ok", NoResult, {})
    /\ cancelledSince' = FALSE
    /\ UNCHANGED <<params, progress, starters>>
    /\ Record(RebindLogsAccesses)

\* Lines 21-25: clear the event, bind params, bind a new empty list,
\* create the task.
StartAccepted(p) ==
    /\ Len(tasks) < MaxStarts
    /\ cancel_event' = FALSE
    /\ params' = p
    /\ lists' = Append(lists, <<>>)
    /\ logs' = Len(lists) + 1
    /\ tasks' = Append(Release(tasks), NewTask(p))
    /\ task' = Len(tasks) + 1
    /\ ret' = Outcome("start", "ok", NoResult, {})
    /\ cancelledSince' = FALSE
    /\ UNCHANGED <<progress, starters>>
    /\ Record(RebindLogsAccesses)

\* start_scan(params), called where no other start_scan is in progress.
StartScan(p) == IF Running THEN StartRejected ELSE StartAccepted(p)

\* start_scan(params) as a thread executes it, one statement per step, so
\* that the statements of two calls interleave.
InFlight == {th \in Threads : starters[th].pc # "idle"}

\* Line 19-20: the check; the thread raises or goes on to line 21.
ThreadCheck(th, p) ==
    /\ starters[th].pc = "idle"
    /\ IF Running
       THEN /\ ret' = Outcome("start", "AlreadyRunning", NoResult, {})
            /\ UNCHANGED starters
       ELSE /\ Len(tasks) + Cardinality(InFlight) < MaxStarts
            /\ starters' = [starters EXCEPT ![th] = [pc |-> "clear", p |-> p]]
            /\ UNCHANGED ret
    /\ UNCHANGED <<tasks, task, cancel_event, progress, params, logs, lists,
                   cancelledSince>>
    /\ UNCHANGED accesses

\* Line 21
ThreadClear(th) ==
    /\ starters[th].pc = "clear"
    /\ cancel_event' = FALSE
    /\ cancelledSince' = FALSE
    /\ starters' = [starters EXCEPT ![th].pc = "params"]
    /\ UNCHANGED <<tasks, task, progress, params, logs, lists, ret>>
    /\ UNCHANGED accesses

\* Line 22
ThreadParams(th) ==
    /\ starters[th].pc = "params"
    /\ params' = starters[th].p
    /\ starters' = [starters EXCEPT ![th].pc = "logs"]
    /\ UNCHANGED <<tasks, task, cancel_event, progress, logs, lists, ret,
                   cancelledSince>>
    /\ UNCHANGED accesses

\* Line 23
ThreadLogs(th) ==
    /\ starters[th].pc = "logs"
    /\ lists' = Append(lists, <<>>)
    /\ logs' = Len(lists) + 1
    /\ starters' = [starters EXCEPT ![th].pc = "create"]
    /\ UNCHANGED <<tasks, task, cancel_event, progress, params, ret,
                   cancelledSince>>
    /\ Record(RebindLogsAccesses)

\* Lines 24-25: the task is created and bound to self._task; the call
\* returns.
ThreadCreate(th) ==
    /\ starters[th].pc = "create"
    /\ tasks' = Append(Release(tasks), NewTask(starters[th].p))
    /\ task' = Len(tasks) + 1
    /\ ret' = Outcome("start", "ok", NoResult, {})
    /\ starters' = [starters EXCEPT ![th] = [pc |-> "idle", p |-> {}]]
    /\ UNCHANGED <<cancel_event, progress, params, logs, lists,
                   cancelledSince>>
    /\ UNCHANGED accesses

ThreadStart(th) ==
    \/ ThreadCheck(th, ThreadArg(th))
    \/ ThreadClear(th)
    \/ ThreadParams(th)
    \/ ThreadLogs(th)
    \/ ThreadCreate(th)

\* CancelScan publishing the cancelled status itself.
CancelScan_Eager ==
    /\ cancel_event' = TRUE
    /\ cancelledSince' = TRUE
    /\ progress' = [EmptyDict EXCEPT !.keys = {"status", "logs"},
                                     !.status = "cancelled", !.logs = logs]
    /\ ret' = Outcome("cancel", "ok", NoResult, {})
    /\ UNCHANGED <<tasks, task, params, logs, lists, starters>>
    /\ Record({Access("caller", "progress", "write", TRUE)})

\* cancel_scan()
CancelScan ==
    /\ cancel_event' = TRUE
    /\ cancelledSince' = TRUE
    /\ ret' = Outcome("cancel", "ok", NoResult, {})
    /\ UNCHANGED <<tasks, task, progress, params, logs, lists, starters>>
    /\ UNCHANGED accesses

\* get_progress(): dict(self._progress) with 'logs' set to list(self._logs).
ProgressCopy ==
    [progress EXCEPT !.keys = @ \cup {"logs"}, !.logs = lists[logs]]

\* A get_progress that stores self._logs itself in the dict it returns:
\* progress['logs'] = self._logs.
ResultAlias_LiveLogs == [dict |-> FALSE, list |-> logs]

\* Lines 83-84: dict(...) and list(...) build new objects, so the dict
\* returned is not self._progress and its 'logs' is not self._logs.
ResultAlias == NoAlias

GetProgress ==
    /\ ret' = [Outcome("get_progress", "ok", ProgressCopy, {})
                EXCEPT !.alias = ResultAlias]
    /\ UNCHANGED <<tasks, task, cancel_event, progress, params, logs, lists,
                   starters, cancelledSince>>
    /\ Record(GetProgressAccesses)

\* What the caller of get_progress may do to the dict it was given: set a
\* field, append to its 'logs', clear its 'logs'.
Mutations == {"set", "append", "clear"}
MutatedFields(d, m) ==
    IF m = "set"
    THEN [d EXCEPT !.keys = @ \cup {"status"}, !.status = "mutated"]
    ELSE d
MutatedList(l, m) ==
    IF m = "append" THEN Append(l, <<"mutated">>)
    ELSE IF m = "clear" THEN <<>>
    ELSE l

\* The caller mutates the dict get_progress returned; an object the dict
\* shares with the service changes with it.
MutateResult(m) ==
    /\ ret.op = "get_progress"
    /\ ret' = [ret EXCEPT !.op = "mutate",
                          !.value = [MutatedFields(@, m) EXCEPT
                                        !.logs = MutatedList(@, m)]]
    /\ progress' = IF ret.alias.dict THEN MutatedFields(progress, m)
                   ELSE progress
    /\ lists' = IF ret.alias.list = NoList THEN lists
                ELSE [lists EXCEPT ![ret.alias.list] = MutatedList(@, m)]
    /\ UNCHANGED <<tasks, task, cancel_event, params, logs, starters,
                   cancelledSince>>
    /\ UNCHANGED accesses

\* get_params(): dict(self._params)
GetParams ==
    /\ ret' = Outcome("get_params", "ok", NoResult, params)
    /\ UNCHANGED <<tasks, task, cancel_event, progress, params, logs, lists,
                   starters, cancelledSince>>
    /\ UNCHANGED accesses

\* --------------------------------------------------------------- supervisor
\* AppendLog inserting at the front: self._logs.insert(0, log).
AppendLog_Prepend(log) == lists' = [lists EXCEPT ![logs] = <<log>> \o @]

\* _append_log(log): self._logs.append(log) under the lock.
AppendLog(log) == lists' = [lists EXCEPT ![logs] = Append(@, log)]

\* _set_progress(progress): self._progress = progress under the lock.
SetProgress(d) == progress' = d

\* The dicts _run_scan passes to _set_progress; 'logs' is self._logs itself.
StartingDict ==
    [EmptyDict EXCEPT !.keys = {"status", "cmd", "logs"},
                      !.status = "starting", !.cmd = CmdText, !.logs = logs]
ScanningDict(decoded) ==
    [EmptyDict EXCEPT !.keys = {"status", "output", "logs"},
                      !.status = "scanning", !.output = decoded, !.logs = logs]
CancelledDict ==
    [EmptyDict EXCEPT !.keys = {"status", "logs"},
                      !.status = "cancelled", !.logs = logs]
CompletedDict ==
    [EmptyDict EXCEPT !.keys = {"status", "logs"},
                      !.status = "completed", !.logs = logs]
ErrorDict(e) ==
    [EmptyDict EXCEPT !.keys = {"status", "error", "logs"},
                      !.status = "error", !.error = e, !.logs = logs]

\* Task t exists and its coroutine is at pc.
At(t, pc) == t \in TaskIds /\ tasks[t].pc = pc

\* What a step of task t leaves alone besides tasks, lists and progress.
CallerState ==
    <<task, cancel_event, params, logs, ret, starters, cancelledSince>>

\* A step of task t that appends log and moves to pc next.
LogStep(t, log, next) ==
    /\ AppendLog(log)
    /\ tasks' = [tasks EXCEPT ![t].pc = next,
                              ![t].appended = Append(@, log)]
    /\ UNCHANGED progress
    /\ UNCHANGED CallerState
    /\ Record(AppendLogAccesses)

\* The list objects after self._progress is rebound to d: a list that
\* neither self._logs nor d refers to is freed.
Collect(d) ==
    [i \in DOMAIN lists |-> IF i \in {logs, d.logs} THEN lists[i] ELSE <<>>]

\* A step of task t that publishes d and moves to pc next.
PublishStep(t, d, next) ==
    /\ SetProgress(d)
    /\ lists' = Collect(d)
    /\ tasks' = [tasks EXCEPT ![t].pc = next,
                              ![t].pubs = Append(@, d.status)]
    /\ UNCHANGED CallerState
    /\ Record(BuildDictAccesses \cup SetProgressAccesses)

\* A step of task t that touches neither the log nor the progress.
LocalStep(t, rec) ==
    /\ tasks' = [tasks EXCEPT ![t] = rec]
    /\ UNCHANGED <<lists, progress>>
    /\ UNCHANGED CallerState
    /\ UNCHANGED accesses

\* Line 31
LogStartup(t) ==
    /\ At(t, "created")
    /\ LogStep(t, startup_msg, "pub_starting")

\* Line 32
PubStarting(t) ==
    /\ At(t, "pub_starting")
    /\ PublishStep(t, StartingDict, "launch")

\* Lines 34-38: the process is launched with stdout piped.
LaunchOk(t) ==
    /\ At(t, "launch")
    /\ LocalStep(t, [tasks[t] EXCEPT !.pc = "check", !.stdout = "open",
                                     !.exit = "running"])

\* Lines 39-40: create_subprocess_exec raises.
LaunchFail(t, e) ==
    /\ At(t, "launch")
    /\ LocalStep(t, [tasks[t] EXCEPT !.pc = "log_launch_error", !.e = e])

\* Line 41
LogLaunchError(t) ==
    /\ At(t, "log_launch_error")
    /\ LogStep(t, LaunchErrorMsg(tasks[t].e), "pub_launch_error")

\* PubLaunchError without the return of line 44: control falls into the loop.
PubLaunchError_NoReturn(t) ==
    /\ At(t, "pub_launch_error")
    /\ PublishStep(t, ErrorDict(tasks[t].e), "check")

\* Lines 42-44
PubLaunchError(t) ==
    /\ At(t, "pub_launch_error")
    /\ PublishStep(t, ErrorDict(tasks[t].e), "return")

\* Lines 47-49 and 54: the poll of the event at the top of the loop; when it
\* is clear the coroutine suspends in readline().  process.terminate() only
\* sends the request: it neither waits for the process nor raises.
CheckCancel(t) ==
    /\ At(t, "check")
    /\ LocalStep(t, IF cancel_event
                    THEN [tasks[t] EXCEPT !.pc = "log_cancel",
                                          !.termReq = TRUE]
                    ELSE [tasks[t] EXCEPT !.pc = "read"])

\* Line 50
LogCancel(t) ==
    /\ At(t, "log_cancel")
    /\ LogStep(t, cancel_msg, "pub_cancelled")

\* PubCancelled without the return of line 53: control goes on to readline().
PubCancelled_NoReturn(t) ==
    /\ At(t, "pub_cancelled")
    /\ PublishStep(t, CancelledDict, "read")

\* Lines 51-53
PubCancelled(t) ==
    /\ At(t, "pub_cancelled")
    /\ PublishStep(t, CancelledDict, "return")

\* Lines 54-57: readline() returns a line, which is decoded and stripped;
\* decode() raises on a byte that is not UTF-8.
ReadLine(t) ==
    /\ At(t, "read")
    /\ tasks[t].pipe # <<>>
    /\ LET raw == Head(tasks[t].pipe) IN
       LocalStep(t, IF Decodable(raw)
                    THEN [tasks[t] EXCEPT !.pc = "log_line",
                                          !.pipe = Tail(@),
                                          !.line = Decoded(raw),
                                          !.rawRead = Append(@, raw)]
                    ELSE [tasks[t] EXCEPT !.pc = "log_scan_error",
                                          !.pipe = Tail(@),
                                          !.e = DecodeErrorText])

\* Lines 54-56: readline() returns b'' at end of stream.
ReadEof(t) ==
    /\ At(t, "read")
    /\ tasks[t].pipe = <<>>
    /\ tasks[t].stdout = "closed"
    /\ LocalStep(t, [tasks[t] EXCEPT !.pc = "wait"])

\* Lines 54 and 66-67: readline() raises.
ReadFail(t) ==
    /\ At(t, "read")
    /\ tasks[t].pipe = <<>>
    /\ tasks[t].stdout = "broken"
    /\ LocalStep(t, [tasks[t] EXCEPT !.pc = "log_scan_error",
                                     !.e = ReadErrorText])

\* Line 58
LogLine(t) ==
    /\ At(t, "log_line")
    /\ LogStep(t, tasks[t].line, "pub_scanning")

\* Lines 59-60
PubScanning(t) ==
    /\ At(t, "pub_scanning")
    /\ PublishStep(t, ScanningDict(tasks[t].line), "check")

\* WaitOk treating a non-zero exit code as a failure of the scan.
WaitOk_ChecksCode(t) ==
    /\ At(t, "wait")
    /\ tasks[t].exit = "exited"
    /\ LocalStep(t, IF tasks[t].returncode = <<0>>
                    THEN [tasks[t] EXCEPT !.pc = "log_completed"]
                    ELSE [tasks[t] EXCEPT !.pc = "log_scan_error",
                                          !.e = WaitErrorText])

\* Line 61: process.wait() returns once the process has exited; the exit
\* code it returns is discarded.
WaitOk(t) ==
    /\ At(t, "wait")
    /\ tasks[t].exit = "exited"
    /\ LocalStep(t, [tasks[t] EXCEPT !.pc = "log_completed"])

\* Lines 61 and 66-67: process.wait() raises.
WaitFail(t) ==
    /\ At(t, "wait")
    /\ tasks[t].exit = "lost"
    /\ LocalStep(t, [tasks[t] EXCEPT !.pc = "log_scan_error",
                                     !.e = WaitErrorText])

\* Line 63
LogCompleted(t) ==
    /\ At(t, "log_completed")
    /\ LogStep(t, success_msg, "pub_completed")

\* Lines 64-65
PubCompleted(t) ==
    /\ At(t, "pub_completed")
    /\ PublishStep(t, CompletedDict, "return")

\* LogScanError in a handler that logs the error and publishes nothing.
LogScanError_NoPublish(t) ==
    /\ At(t, "log_scan_error")
    /\ LogStep(t, ScanErrorMsg(tasks[t].e), "return")

\* Line 68
LogScanError(t) ==
    /\ At(t, "log_scan_error")
    /\ LogStep(t, ScanErrorMsg(tasks[t].e), "pub_scan_error")

\* Lines 69-70
PubScanError(t) ==
    /\ At(t, "pub_scan_error")
    /\ PublishStep(t, ErrorDict(tasks[t].e), "return")

\* The coroutine returns and the task becomes done().
Finish(t) ==
    /\ At(t, "return")
    /\ LocalStep(t, [tasks[t] EXCEPT !.pc = "done"])

\* Every step of the supervisor of task t.
Supervisor(t) ==
    \/ LogStartup(t) \/ PubStarting(t) \/ LaunchOk(t)
    \/ (\E e \in LaunchErrors : LaunchFail(t, e))
    \/ LogLaunchError(t) \/ PubLaunchError(t)
    \/ CheckCancel(t) \/ LogCancel(t) \/ PubCancelled(t)
    \/ ReadLine(t) \/ ReadEof(t) \/ ReadFail(t)
    \/ LogLine(t) \/ PubScanning(t)
    \/ WaitOk(t) \/ WaitFail(t)
    \/ LogCompleted(t) \/ PubCompleted(t)
    \/ LogScanError(t) \/ PubScanError(t)
    \/ Finish(t)

\* ---------------------------------------------------------- external process
\* The supervisor of t is suspended in readline().  It sees what its process
\* wrote only there, so a write or close made while it runs between two
\* reads is taken as made once it is suspended again.
Supervised(t) == At(t, "read")

\* The process writes one more line to its stdout.
ProcEmit(t, raw) ==
    /\ Supervised(t)
    /\ tasks[t].stdout = "open"
    /\ tasks[t].nEmit < MaxLines
    /\ LocalStep(t, [tasks[t] EXCEPT !.pipe = Append(@, raw),
                                     !.nEmit = @ + 1])

\* The process closes its stdout.
ProcClose(t) ==
    /\ Supervised(t)
    /\ tasks[t].stdout = "open"
    /\ LocalStep(t, [tasks[t] EXCEPT !.stdout = "closed"])

\* The pipe from the process fails.
ProcBreak(t) ==
    /\ Supervised(t)
    /\ tasks[t].stdout = "open"
    /\ LocalStep(t, [tasks[t] EXCEPT !.stdout = "broken"])

\* The process exits, or its exit status cannot be collected.
ProcExit(t, how) ==
    /\ At(t, "wait")
    /\ tasks[t].exit = "running"
    /\ \E rc \in IF how = "exited" THEN {<<c>> : c \in ExitCodes} ELSE {<<>>} :
        LocalStep(t, [tasks[t] EXCEPT !.exit = how, !.returncode = rc])

Process(t) ==
    \/ (\E raw \in RawLines : ProcEmit(t, raw))
    \/ ProcClose(t)
    \/ ProcBreak(t)
    \/ (\E how \in {"exited", "lost"} : ProcExit(t, how))

\* ------------------------------------------------------------ specification
Next ==
    \/ (\E p \in ParamChoices : StartScan(p))
    \/ CancelScan
    \/ GetProgress
    \/ (\E m \in Mutations : MutateResult(m))
    \/ GetParams
    \/ (\E t \in 1..MaxStarts : Supervisor(t))
    \/ (\E t \in 1..MaxStarts : Process(t))

Spec == Init /\ [][Next]_vars

\* The event loop runs every task that can take a step; nothing obliges the
\* external process or the callers to act.
FairSpec ==
    Spec /\ \A t \in 1..MaxStarts : WF_vars(Supervisor(t))

\* Lines written so far by the processes of tasks 1..n.
RECURSIVE Emitted(_)
Emitted(n) == IF n = 0 THEN 0 ELSE tasks[n].nEmit + Emitted(n - 1)

ProcessConc(t) ==
    \/ (\E raw \in ConcLines :
            Emitted(Len(tasks)) < MaxConcLines /\ ProcEmit(t, raw))
    \/ ProcClose(t)
    \/ ProcBreak(t)
    \/ (\E how \in {"exited", "lost"} : ProcExit(t, how))

\* start_scan called from several threads at once.
NextConc ==
    \/ (\E th \in Threads : ThreadStart(th))
    \/ CancelScan
    \/ (\E t \in 1..MaxStarts : Supervisor(t))
    \/ (\E t \in 1..MaxStarts : ProcessConc(t))

SpecConc == Init /\ [][NextConc]_vars

\* ------------------------------------------------------------------- claims
\* The task self._task refers to, where there is one.
Current == tasks[task]

\* C1: at most one ScanTask is active (created and not yet done) at any
\* time, and every start_scan called while a ScanTask is active is rejected
\* with "Scan already running" and creates or replaces no task.
C1_SingleFlight ==
    /\ [](Cardinality(ActiveTasks) <= 1)
    /\ [][\A p \in ParamChoices :
            (ActiveTasks # {} /\ StartScan(p))
                => /\ ret'.result = "AlreadyRunning"
                   /\ tasks' = tasks
                   /\ task' = task]_vars

\* A start_scan was rejected while the supervisor is suspended in readline().
C1_Witness ==
    /\ ActiveTasks # {}
    /\ ret.op = "start" /\ ret.result = "AlreadyRunning"
    /\ Current.pc = "read"

\* C2: a start_scan that is rejected changes neither the params, the log,
\* the progress, the cancel event nor the task handle, wherever the running
\* supervisor is.
C2_RejectedStartChangesNothing ==
    [][\A p \in ParamChoices :
        (StartScan(p) /\ ret'.result = "AlreadyRunning")
            => UNCHANGED <<params, logs, lists, progress, cancel_event,
                           task, tasks>>]_vars

\* A start_scan was rejected after a cancel_scan the supervisor has not yet
\* polled, with one line already logged.
C2_Witness ==
    /\ ret.op = "start" /\ ret.result = "AlreadyRunning"
    /\ cancel_event
    /\ Current.pc = "pub_scanning"

\* C3: when start_scan calls run concurrently, at most one of them creates a
\* ScanTask, so two supervisors are never active together.
C3_OneStartWins == Cardinality(ActiveTasks) <= 1

\* Task t has published status s.
Published(t, s) == \E i \in 1..Len(tasks[t].pubs) : tasks[t].pubs[i] = s

\* The number of entries of seq equal to x.
Count(seq, x) == Cardinality({i \in 1..Len(seq) : seq[i] = x})

IsPrefix(a, b) == Len(a) <= Len(b) /\ SubSeq(b, 1, Len(a)) = a

\* The entries the supervisor logs for the raw lines raws.
DecodedAll(raws) == [i \in 1..Len(raws) |-> Rstrip(raws[i])]

\* C4: a cancel_scan made while the supervisor is suspended in readline() is
\* observed during that read: the scan goes on to publish cancelled even if
\* the process writes nothing more and never closes its stdout.
C4_CancelObservedDuringRead ==
    \A t \in 1..MaxStarts :
        (/\ t \in TaskIds
         /\ tasks[t].pc = "read"
         /\ cancel_event
         /\ tasks[t].pipe = <<>>
         /\ tasks[t].stdout = "open")
        ~> (/\ t \in TaskIds
            /\ \/ Published(t, "cancelled")
               \/ tasks[t].pipe # <<>>
               \/ tasks[t].stdout # "open")

\* C5: a scan whose process was launched and that is cancelled before the
\* process has written any line goes on to publish cancelled, with the
\* startup line and "Scan cancelled." in its log (unless the pipe fails).
C5_CancelBeforeOutputEndsCancelled ==
    \A t \in 1..MaxStarts :
        (/\ t \in TaskIds
         /\ Active(t)
         /\ cancel_event
         /\ tasks[t].stdout = "open"
         /\ tasks[t].nEmit = 0)
        ~> (/\ t \in TaskIds
            /\ \/ /\ Published(t, "cancelled")
                  /\ Count(tasks[t].appended, startup_msg) = 1
                  /\ Count(tasks[t].appended, cancel_msg) = 1
               \/ tasks[t].stdout = "broken")

\* C6: cancel_scan never fails and changes nothing but the cancel event,
\* whenever it is called, and every scan publishes the cancelled status and
\* appends "Scan cancelled." at most once.
C6_CancelIdempotent ==
    /\ [](ENABLED CancelScan)
    /\ [][CancelScan
            => /\ cancel_event'
               /\ ret'.result = "ok"
               /\ UNCHANGED <<tasks, task, progress, params, logs,
                              lists>>]_vars
    /\ [](\A t \in TaskIds :
            /\ Count(tasks[t].pubs, "cancelled") <= 1
            /\ Count(tasks[t].appended, cancel_msg) <= 1)

\* cancel_scan was called again after the scan published cancelled and
\* finished.
C6_Witness ==
    /\ task # 0
    /\ Current.pc = "done"
    /\ Published(task, "cancelled")
    /\ progress.status = "cancelled"
    /\ ret.op = "cancel"

\* C7: the cancel event, once set, is cleared only by a start_scan that is
\* accepted, and it is clear when the new task is created; a scan publishes
\* cancelled only if cancel_scan was called after that scan's start_scan.
C7_SignalStaysSetUntilStart ==
    /\ [][(cancel_event /\ ~cancel_event')
            => /\ Len(tasks') = Len(tasks) + 1
               /\ ret'.op = "start" /\ ret'.result = "ok"]_vars
    /\ [][Len(tasks') > Len(tasks)
            => ~cancel_event' /\ tasks'[task'].pc = "created"]_vars
    /\ [](\A t \in TaskIds : Published(t, "cancelled") => cancelledSince)

\* The second scan was cancelled and finished, and the event is still set.
C7_Witness ==
    /\ Len(tasks) = 2
    /\ Current.pc = "done"
    /\ Published(task, "cancelled")
    /\ cancel_event

\* The scan of the task self._task refers to has ended after its process
\* was launched, closed its stdout and exited, and no cancel_scan was called
\* since its start_scan.
EndedUncancelled ==
    /\ task # 0
    /\ Current.pc \in {"return", "done"}
    /\ Current.stdout = "closed"
    /\ Current.exit = "exited"
    /\ ~cancelledSince

\* C8 as stated: for a scan whose process emits k lines and exits, with no
\* cancel, get_progress ends with status completed and with logs that are
\* exactly the startup line followed by the k lines.
C8_LogsAreStartupAndLines ==
    EndedUncancelled
        => /\ ProgressCopy.status = "completed"
           /\ ProgressCopy.logs
                = <<startup_msg>> \o DecodedAll(Current.rawRead)

\* C8 as amended: for a scan whose process emits k lines and exits, with no
\* cancel, get_progress ends with status completed and with logs that are
\* exactly the startup line, the k lines in arrival order (each decoded, its
\* trailing whitespace stripped), and then "Scan completed.".
C8_LogsAreStartupLinesAndCompleted ==
    EndedUncancelled
        => /\ ProgressCopy.status = "completed"
           /\ Len(Current.rawRead) = Current.nEmit
           /\ ProgressCopy.logs
                = <<startup_msg>> \o DecodedAll(Current.rawRead)
                    \o <<success_msg>>

\* A scan of two lines has completed.
C8_Witness ==
    /\ EndedUncancelled
    /\ Current.pc = "done"
    /\ Len(Current.rawRead) = 2

\* C9: when the process cannot be launched, the failure is not raised to any
\* caller (the start_scan that created the task had returned normally), the
\* supervisor publishes status error with the error message and ends
\* without reading any output, and the params stay those passed to that
\* start_scan.
C9_LaunchFailure ==
    /\ [](\A t \in TaskIds :
            (tasks[t].stdout = "none" /\ Published(t, "error"))
                => /\ tasks[t].pc \in {"return", "done"}
                   /\ tasks[t].pubs = <<"starting", "error">>
                   /\ tasks[t].rawRead = <<>>
                   /\ tasks[t].e \in LaunchErrors
                   /\ t = task
                        => /\ progress.status = "error"
                           /\ "error" \in progress.keys
                           /\ progress.error = tasks[t].e
                           /\ params = tasks[t].arg)
    /\ [][Len(tasks') > Len(tasks) => ret'.result = "ok"]_vars
    /\ [][\A t \in TaskIds :
            (tasks[t].pc = "launch" /\ tasks'[t].pc = "log_launch_error")
                => ret' = ret]_vars

\* The launch failed, the task is done, and get_params was called.
C9_Witness ==
    /\ task # 0
    /\ Current.pc = "done"
    /\ Current.stdout = "none"
    /\ progress.status = "error"
    /\ ret.op = "get_params"
    /\ ret.mapping = Current.arg

\* C10: a start_scan accepted after a scan has finished binds the new
\* params, leaves the cancel event clear and the log empty; from then on
\* get_params returns the new params and the logs get_progress returns hold
\* only entries the new run appended.
C10_SecondStartResets ==
    /\ [][Len(tasks') > Len(tasks)
            => /\ params' = tasks'[task'].arg
               /\ ~cancel_event'
               /\ lists'[logs'] = <<>>
               /\ ret'.op = "start"]_vars
    /\ [](task # 0
            => /\ lists[logs] = Current.appended
               /\ ret.op = "get_progress"
                    => IsPrefix(ret.value.logs, Current.appended)
               /\ ret.op = "get_params" => ret.mapping = Current.arg)

\* get_progress returned the two entries logged so far by the second scan.
C10_Witness ==
    /\ Len(tasks) = 2
    /\ ret.op = "get_progress"
    /\ Len(ret.value.logs) = 2
    /\ params = Current.arg

\* The statuses that end a scan.
Terminal == {"completed", "cancelled", "error"}

\* Task t has published a terminal status.
TerminalPublished(t) ==
    Len(tasks[t].pubs) > 0 /\ tasks[t].pubs[Len(tasks[t].pubs)] \in Terminal

\* The last entry of a log, <<>> for an empty log.
LastEntry(log) == IF Len(log) = 0 THEN <<>> ELSE log[Len(log)]

\* C11: every record get_progress returns is a consistent pair: logs that
\* end in "Scan completed.", "Scan cancelled." or an error line come with
\* the matching terminal status.
C11_ConsistentPair ==
    ret.op = "get_progress"
        => LET last == LastEntry(ret.value.logs) IN
           /\ last = success_msg => ret.value.status = "completed"
           /\ last = cancel_msg => ret.value.status = "cancelled"
           /\ (Len(last) > 0
                /\ last[1] \in {"Scan error: ", "Failed to start nmap: "})
                    => ret.value.status = "error"

\* The number of lines of the scan of self._task that have been logged: the
\* lines read, less the one held between readline() and _append_log.
LinesLogged ==
    Len(Current.rawRead) - (IF Current.pc = "log_line" THEN 1 ELSE 0)

\* C12 as stated: after the supervisor has read N lines the log has length N.
C12_LogLengthIsLinesRead ==
    (task # 0 /\ Current.pc \in {"pub_scanning", "check", "read"})
        => Len(lists[logs]) = Len(Current.rawRead)

\* C12 as amended: after the supervisor has read and logged N lines, the
\* log is the startup line followed by the N lines in arrival order (each
\* decoded, trailing whitespace stripped), so its length is N + 1 until the
\* one line that ends the scan is appended; this holds whatever get_progress
\* calls interleave, and the log only grows within a scan: every record
\* get_progress returned holds a prefix of the log as it is later.
C12_LogIsStartupThenLines ==
    /\ []((task # 0 /\ Current.pc # "created")
            => /\ IsPrefix(<<startup_msg>>
                            \o DecodedAll(SubSeq(Current.rawRead, 1,
                                                 LinesLogged)),
                           lists[logs])
               /\ Len(lists[logs]) <= LinesLogged + 2
               /\ Current.pc \in {"pub_scanning", "check", "read"}
                    => Len(lists[logs]) = LinesLogged + 1)
    /\ [](ret.op = "get_progress" => IsPrefix(ret.value.logs, lists[logs]))
    /\ [][Len(tasks') = Len(tasks)
            => IsPrefix(lists[logs], lists'[logs'])]_vars

\* get_progress returned the log after one line; a second line has been
\* logged since.
C12_Witness ==
    /\ task # 0
    /\ Current.pc = "check"
    /\ Len(Current.rawRead) = 2
    /\ ret.op = "get_progress"
    /\ Len(ret.value.logs) = 2

\* C14: self._params, which get_params returns, is the params of the last
\* start_scan that was accepted, and the empty mapping before any; only an
\* accepted start_scan changes it.
C14_ParamsOfLastStart ==
    /\ [](params = IF task = 0 THEN {} ELSE Current.arg)
    /\ [](ret.op = "get_params" => ret.mapping = params)
    /\ [][params' # params
            => Len(tasks') = Len(tasks) + 1 /\ ret'.result = "ok"]_vars

\* get_params was called after the second scan finished.
C14_Witness ==
    /\ Len(tasks) = 2
    /\ Current.pc = "done"
    /\ ret.op = "get_params"
    /\ ret.mapping = Current.arg
    /\ cancel_event

\* C15: the statuses a task publishes are starting, then scanning once per
\* line read, then at most one of completed, cancelled, error; nothing is
\* published after a terminal status, and the task then ends.
C15_StatusOrder ==
    \A t \in TaskIds :
        LET pubs == tasks[t].pubs IN
        /\ \A i \in 1..Len(pubs) :
            /\ (i = 1) <=> (pubs[i] = "starting")
            /\ pubs[i] \in {"starting", "scanning"} \cup Terminal
            /\ pubs[i] \in Terminal => i = Len(pubs)
        /\ Count(pubs, "scanning")
            = Len(tasks[t].rawRead)
                - (IF tasks[t].pc \in {"log_line", "pub_scanning"}
                   THEN 1 ELSE 0)
        /\ TerminalPublished(t) => tasks[t].pc \in {"return", "done"}

\* A scan of two lines published starting, scanning, scanning, completed.
C15_Witness ==
    /\ task # 0
    /\ Current.pubs = <<"starting", "scanning", "scanning", "completed">>

\* C16: whenever the task self._task refers to has ended, by end of stream,
\* cancellation, launch failure or an exception of readline(), decode() or
\* wait(), the status of the progress is completed, cancelled or error.
C16_ExitWritesTerminal ==
    (task # 0 /\ Current.pc \in {"return", "done"})
        => /\ progress.status \in Terminal
           /\ "status" \in progress.keys
           /\ TerminalPublished(task)

\* The scan ended by an exception of wait().
C16_Witness ==
    /\ task # 0
    /\ Current.pc = "done"
    /\ Current.e = WaitErrorText
    /\ progress.status = "error"

\* C17: once the task self._task refers to has published a terminal status,
\* no step other than an accepted start_scan changes the progress or the
\* log, and no process is launched.
C17_NoRetry ==
    [][(task # 0 /\ TerminalPublished(task) /\ Len(tasks') = Len(tasks))
        => /\ progress' = progress
           /\ logs' = logs
           /\ lists'[logs'] = lists[logs]
           /\ \A t \in TaskIds :
                tasks'[t].stdout = tasks[t].stdout
                    \/ tasks[t].stdout # "none"]_vars

\* cancel_scan was called after a scan ended in error.
C17_Witness ==
    /\ task # 0
    /\ Current.pc = "done"
    /\ progress.status = "error"
    /\ ret.op = "cancel"

\* C20: a status get_progress returns after an accepted start_scan was
\* published by the scan that start_scan created.
C20_NoStaleStatus ==
    (ret.op = "get_progress" /\ task # 0 /\ "status" \in ret.value.keys)
        => Published(task, ret.value.status)

\* Task t left the read loop by end of stream.
EndOfStream(t) ==
    \/ tasks[t].pc \in {"wait", "log_completed", "pub_completed"}
    \/ tasks[t].pc \in {"log_scan_error", "pub_scan_error", "return", "done"}
        /\ tasks[t].exit \in {"exited", "lost"}

\* C19: a task that left the read loop by end of stream and whose wait()
\* returned publishes completed, whatever the exit code and whether or not
\* cancel_scan was called since the last poll of the event: it never
\* publishes cancelled, and publishes error only when wait() itself raises.
C19_CompletedWhateverExitCode ==
    \A t \in TaskIds :
        EndOfStream(t)
            => /\ Count(tasks[t].pubs, "cancelled") = 0
               /\ Count(tasks[t].pubs, "error") > 0
                    => tasks[t].exit = "lost"
               /\ (tasks[t].exit = "exited"
                    /\ tasks[t].pc \in {"pub_completed", "return", "done"})
                    => /\ LastEntry(tasks[t].appended) = success_msg
                       /\ Count(tasks[t].pubs, "error") = 0
               /\ (tasks[t].exit = "exited"
                    /\ tasks[t].pc \in {"return", "done"})
                    => LastEntry(tasks[t].pubs) = "completed"

\* The process exited with code 1 and cancel_scan was called before
\* completed was published (the get_progress made after it returned a
\* status that is not terminal); the scan ended completed.
C19_Witness ==
    /\ task # 0
    /\ Current.pc = "done"
    /\ Current.returncode = <<1>>
    /\ cancel_event
    /\ ret.op = "get_progress"
    /\ ret.value.status \in {"starting", "scanning"}
    /\ progress.status = "completed"

\* C13: when the caller mutates the dict get_progress returned (sets a
\* field, appends to its logs or clears them), self._progress, self._logs
\* and the list it refers to stay as they were, so the next get_progress
\* returns what it would have returned before the mutation.
C13_ReturnsCopy ==
    [][(ret.op = "get_progress" /\ ret'.op = "mutate")
        => /\ progress' = progress
           /\ logs' = logs
           /\ lists' = lists
           /\ ProgressCopy' = ProgressCopy]_vars

\* The caller cleared the logs of a dict returned while scanning; the log of
\* the service still holds its entries.
C13_Witness ==
    /\ ret.op = "mutate"
    /\ ret.value.status = "scanning"
    /\ ret.value.logs = <<>>
    /\ progress.status = "scanning"
    /\ Len(lists[logs]) >= 2

\* C18: every write of self._logs or self._progress is made by the
\* supervisor inside the lock block, no operation of a caller writes either
\* field, and no step reads or writes either field outside the lock block.
C18_AccessUnderLockWritesBySupervisor ==
    \A a \in accesses :
        /\ a.locked
        /\ a.mode = "write" => a.by = "supervisor"

====
